---- MODULE Spec2Model ----
(***************************************************************************)
(* Collection pipeline of sg-cafe-reviews: CafeQuery.collect_cafes and     *)
(* CafeQuery.collect_reviews (src/src/data/query.py) driven by             *)
(* collect_all_data (src/scripts/collect_data.py).  The program is         *)
(* sequential; pc is the position of the single thread of control.         *)
(* CafeProcessor (src/src/data/process.py) follows: the text cleaner under *)
(* TextSpec, its methods on loaded frames under ProcSpec.                  *)
(***************************************************************************)
EXTENDS Integers, Sequences, FiniteSets, TLC

(***************************************************************************)
(* Bounds of the model.                                                    *)
(***************************************************************************)
NAreas == 2          \* neighborhoods in the catalog, in collection order
NPlaces == 2         \* place ids the provider knows
MaxPageLen == 1      \* results on one page of this model's provider
MaxReviews == 2      \* reviews in one place-detail response
MaxRequests == 4     \* the request counter (an observer) saturates here
MaxTextLen == 3      \* characters in one review text given to the cleaner
MaxRows == 2         \* rows in a table loaded by the processor

Areas == 1..NAreas
Places == 1..NPlaces

(***************************************************************************)
(* Values.                                                                 *)
(***************************************************************************)
Unbound == <<>>                       \* a local name with no binding yet
PlaceName(p) == <<"name", p>>         \* response['result']['name']
RegionOf(a) == <<"region", a>>        \* neighborhood['region']
NoException == "None"

\* The 'time' of a provider review: a valid epoch, or a number of seconds
\* that pd.to_datetime(..., unit='s') cannot represent.
TimeKinds == {"epoch", "overflow"}

\* review_date = pd.to_datetime(time, unit='s').date() if time else None
ReviewDateRaises(review) == review.time = "overflow"
ReviewDate(review) == IF review.time = "absent" THEN "None" ELSE "date"

\* Lists of reviews the provider may return for one place; the text of
\* the k-th review is k, so the reviews of a list are distinct.
ReviewLists ==
  UNION { { [k \in 1..n |-> [time |-> t[k], text |-> k]] : t \in [1..n -> TimeKinds] }
          : n \in 0..MaxReviews }

\* What gmaps.place does for one place id: raise, or return reviews.
PlaceOutcomes ==
  { [raises |-> TRUE, reviews |-> <<>>] }
    \cup { [raises |-> FALSE, reviews |-> l] : l \in ReviewLists }

Range(s) == { s[k] : k \in 1..Len(s) }

\* Pages the provider may return once 'seen' was already returned for the
\* area: distinct places not returned before.
PageResults(seen) ==
  { s \in UNION { [1..n -> Places \ seen] : n \in 0..MaxPageLen } :
      \A j, k \in 1..Len(s) : j # k => s[j] # s[k] }

Min(a, b) == IF a < b THEN a ELSE b

VARIABLES
  provider_place,   \* the provider's place-detail behaviour, per place id
  pc,               \* position of the thread of control
  nb,               \* index of the neighborhood being processed
  response,         \* collect_cafes: the last places_nearby response
  all_cafes,        \* collect_cafes: accumulated raw results
  cafes_df,         \* collect_all_data: the area's tagged place rows
  idx,              \* collect_reviews: position in place_ids
  place_name,       \* collect_reviews: local, bound by the first response
  all_reviews,      \* collect_reviews: accumulated flat review rows
  reviews_df,       \* collect_all_data: what collect_reviews returned
  all_cafes_dfs,    \* collect_all_data: per-area place frames
  all_reviews_dfs,  \* collect_all_data: per-area review frames
  final_cafes,      \* collect_all_data: the deduplicated place table
  final_reviews,    \* collect_all_data: the combined review table
  exc,              \* the exception that ended the run, if any
  pages_fetched,    \* observer: places_nearby requests of this area
  last_request,     \* observer: the last places_nearby request
  slept,            \* observer: a sleep happened since the last request
  appeared,         \* observer: <<place, area>> in the order returned
  last_detail,      \* observer: the last gmaps.place request
  printed,          \* observer: the last line of the except handler
  transport_failed  \* observer: a places_nearby request raised

vars == << provider_place, pc, nb, response, all_cafes, cafes_df, idx,
           place_name, all_reviews, reviews_df, all_cafes_dfs,
           all_reviews_dfs, final_cafes, final_reviews, exc, pages_fetched,
           last_request, slept, appeared, last_detail, printed,
           transport_failed >>

NoResponse == [results |-> <<>>, has_token |-> FALSE, next_page_token |-> 0]
NoRequest == [params |-> {}, page_token |-> 0, delayed |-> FALSE]
NoDetail == [place_id |-> 0, first |-> TRUE, delayed |-> FALSE]
NoPrint == [name |-> Unbound, place_id |-> 0]

(***************************************************************************)
(* CafeProcessor (src/src/data/process.py): its two frames, the method     *)
(* called last and what it gave, and one text run through the cleaner.     *)
(***************************************************************************)
VARIABLES
  self_cafes_df,    \* CafeProcessor.cafes_df
  self_reviews_df,  \* CafeProcessor.reviews_df
  loaded_reviews,   \* observer: the review table as load_data read it
  called,           \* the CafeProcessor method called last
  raised,           \* the exception that call raised, if any
  merged,           \* what cafe_reviews_df returned
  stats,            \* what generate_summary_stats returned
  text,             \* the 'text' cell of one review
  text_clean,       \* clean_review_text(text)
  text_length,      \* df['text_clean'].str.len()
  word_count,       \* df['text_clean'].str.split().str.len()
  text_again,       \* clean_review_text(text_clean)
  step              \* how far the text went through the cleaner

procVars == << self_cafes_df, self_reviews_df, loaded_reviews, called, raised,
               merged, stats, text, text_clean, text_length, word_count,
               text_again, step >>

NoStats == [total_cafes |-> 0, total_reviews |-> 0, missing_reviews |-> 0]

\* The processor before load_data, no text in the cleaner.
ProcIdle ==
  /\ self_cafes_df = <<>>
  /\ self_reviews_df = <<>>
  /\ loaded_reviews = <<>>
  /\ called = "none"
  /\ raised = NoException
  /\ merged = <<>>
  /\ stats = NoStats
  /\ text = <<>>
  /\ text_clean = <<>>
  /\ text_length = 0
  /\ word_count = 0
  /\ text_again = <<>>
  /\ step = "none"

Init ==
  /\ ProcIdle
  /\ provider_place \in [Places -> PlaceOutcomes]
  /\ pc = "loop"
  /\ nb = 1
  /\ response = NoResponse
  /\ all_cafes = <<>>
  /\ cafes_df = <<>>
  /\ idx = 1
  /\ place_name = Unbound
  /\ all_reviews = <<>>
  /\ reviews_df = <<>>
  /\ all_cafes_dfs = <<>>
  /\ all_reviews_dfs = <<>>
  /\ final_cafes = <<>>
  /\ final_reviews = <<>>
  /\ exc = NoException
  /\ pages_fetched = 0
  /\ last_request = NoRequest
  /\ slept = FALSE
  /\ appeared = <<>>
  /\ last_detail = NoDetail
  /\ printed = NoPrint
  /\ transport_failed = FALSE

(***************************************************************************)
(* CafeQuery.collect_cafes, called from the loop of collect_all_data.      *)
(***************************************************************************)
\* Keyword arguments of the two places_nearby calls.
FirstRequestParams == {"location", "radius", "type", "language"}
NextRequestParams == {"page_token"}

\* Responses the provider may give to request number n of an area when the
\* places in 'seen' were already returned: any page, with or without a
\* next_page_token.  The token of request n is n.
ProviderResponses(seen, n) ==
  { [results |-> r, has_token |-> h, next_page_token |-> IF h THEN n ELSE 0] :
      r \in PageResults(seen), h \in BOOLEAN }

\* As AfterResponse, with the sleep of the loop body left out.
AfterResponseNoDelay(resp) == IF resp.has_token THEN "next" ELSE "convert"

\* while 'next_page_token' in response: the loop sleeps and fetches again,
\* otherwise the function goes on to build the frame.
AfterResponse(resp) == IF resp.has_token THEN "delay" ELSE "convert"

\* The area tag of the results of one response.
Tagged(results, a) == [k \in 1..Len(results) |-> <<results[k], a>>]

\* As NearbyRaises, with the error caught and taken for an empty last page.
NearbyRaisesSwallowed ==
  /\ pc' = "convert"
  /\ transport_failed' = TRUE
  /\ UNCHANGED << exc, response, all_cafes, appeared >>

\* A places_nearby call raised: nothing catches it in collect_cafes or in
\* collect_all_data.
NearbyRaises ==
  /\ pc' = "aborted"
  /\ exc' = "TransportError"
  /\ transport_failed' = TRUE
  /\ UNCHANGED << response, all_cafes, appeared >>

\* for i, neighborhood in enumerate(...): collect_cafes(neighborhood) up to
\* the first response and all_cafes.extend(response.get('results', [])).
FirstRequest ==
  /\ UNCHANGED procVars
  /\ pc = "loop"
  /\ nb <= NAreas
  /\ pages_fetched' = 1
  /\ last_request' = [params |-> FirstRequestParams, page_token |-> 0,
                      delayed |-> FALSE]
  /\ slept' = FALSE
  /\ \/ NearbyRaises
     \/ \E resp \in ProviderResponses({}, 1) :
          /\ response' = resp
          /\ all_cafes' = resp.results
          /\ appeared' = appeared \o Tagged(resp.results, nb)
          /\ pc' = AfterResponse(resp)
          /\ UNCHANGED << exc, transport_failed >>
  /\ UNCHANGED << provider_place, nb, cafes_df, idx, place_name, all_reviews,
                  reviews_df, all_cafes_dfs, all_reviews_dfs, final_cafes,
                  final_reviews, last_detail, printed >>

\* time.sleep(2) at the head of the loop body.
PageDelay ==
  /\ UNCHANGED procVars
  /\ pc = "delay"
  /\ slept' = TRUE
  /\ pc' = "next"
  /\ UNCHANGED << provider_place, nb, response, all_cafes, cafes_df, idx,
                  place_name, all_reviews, reviews_df, all_cafes_dfs,
                  all_reviews_dfs, final_cafes, final_reviews, exc,
                  pages_fetched, last_request, appeared, last_detail, printed,
                  transport_failed >>

\* places_nearby(page_token=response['next_page_token']) and
\* all_cafes.extend(response['results']); the loop has no page counter.
NextRequest ==
  /\ UNCHANGED procVars
  /\ pc = "next"
  /\ pages_fetched' = Min(pages_fetched + 1, MaxRequests)
  /\ last_request' = [params |-> NextRequestParams,
                      page_token |-> response.next_page_token,
                      delayed |-> slept]
  /\ slept' = FALSE
  /\ \/ NearbyRaises
     \/ \E resp \in ProviderResponses(Range(all_cafes), pages_fetched') :
          /\ response' = resp
          /\ all_cafes' = all_cafes \o resp.results
          /\ appeared' = appeared \o Tagged(resp.results, nb)
          /\ pc' = AfterResponse(resp)
          /\ UNCHANGED << exc, transport_failed >>
  /\ UNCHANGED << provider_place, nb, cafes_df, idx, place_name, all_reviews,
                  reviews_df, all_cafes_dfs, all_reviews_dfs, final_cafes,
                  final_reviews, last_detail, printed >>

\* df['neighborhood'] = ...; df['region'] = ... on the kept columns.
CafesFrame(cafes, a) ==
  [k \in 1..Len(cafes) |->
     [place_id |-> cafes[k], neighborhood |-> a, region |-> RegionOf(a)]]

\* The tail of collect_cafes (the frame, or an empty frame) and the test
\* 'if not cafes_df.empty' of collect_all_data, which enters collect_reviews.
Convert ==
  /\ UNCHANGED procVars
  /\ pc = "convert"
  /\ cafes_df' = IF all_cafes # <<>> THEN CafesFrame(all_cafes, nb) ELSE <<>>
  /\ IF cafes_df' # <<>>
       THEN /\ pc' = "reviews"
            /\ idx' = 1
            /\ place_name' = Unbound
            /\ all_reviews' = <<>>
            /\ last_detail' = NoDetail
       ELSE /\ pc' = "pause"
            /\ UNCHANGED << idx, place_name, all_reviews, last_detail >>
  /\ UNCHANGED << provider_place, nb, response, all_cafes, reviews_df,
                  all_cafes_dfs, all_reviews_dfs, final_cafes, final_reviews,
                  exc, pages_fetched, last_request, slept, appeared, printed,
                  transport_failed >>

(***************************************************************************)
(* CafeQuery.collect_reviews over place_ids = cafes_df['place_id'].        *)
(***************************************************************************)
\* The dict appended for one review.
ReviewRow(place_id, name, review) ==
  [place_id |-> place_id, place_name |-> name, text |-> review.text,
   review_date |-> ReviewDate(review)]

\* Number of reviews flattened before the body of 'for review in reviews'
\* raises: all of them when none raises.
FlattenedCount(reviews) ==
  IF \E k \in 1..Len(reviews) : ReviewDateRaises(reviews[k])
    THEN (CHOOSE k \in 1..Len(reviews) :
            /\ ReviewDateRaises(reviews[k])
            /\ \A j \in 1..(k - 1) : ~ReviewDateRaises(reviews[j])) - 1
    ELSE Len(reviews)

\* The rows all_reviews.append has added when the inner loop stops.
FlattenedRows(place_id, name, reviews) ==
  [k \in 1..FlattenedCount(reviews) |-> ReviewRow(place_id, name, reviews[k])]

\* One iteration of 'for i, place_id in enumerate(place_ids)' inside the
\* try: the gmaps.place request and the loop over the returned reviews.
DetailRequest ==
  /\ UNCHANGED procVars
  /\ pc = "reviews"
  /\ idx <= Len(cafes_df)
  /\ LET place_id == cafes_df[idx].place_id
         outcome == provider_place[place_id]
     IN  /\ last_detail' = [place_id |-> place_id, first |-> idx = 1,
                            delayed |-> slept]
         /\ slept' = FALSE
         /\ IF outcome.raises
              THEN /\ pc' = "except"
                   /\ UNCHANGED << place_name, all_reviews >>
              ELSE /\ place_name' = PlaceName(place_id)
                   /\ all_reviews' = all_reviews \o
                        FlattenedRows(place_id, place_name', outcome.reviews)
                   /\ pc' = IF FlattenedCount(outcome.reviews) = Len(outcome.reviews)
                              THEN "rsleep" ELSE "except"
  /\ UNCHANGED << provider_place, nb, response, all_cafes, cafes_df, idx,
                  reviews_df, all_cafes_dfs, all_reviews_dfs, final_cafes,
                  final_reviews, exc, pages_fetched, last_request, appeared,
                  printed, transport_failed >>

\* time.sleep(0.1), the last statement of the try block.
ReviewSleep ==
  /\ UNCHANGED procVars
  /\ pc = "rsleep"
  /\ slept' = TRUE
  /\ idx' = idx + 1
  /\ pc' = "reviews"
  /\ UNCHANGED << provider_place, nb, response, all_cafes, cafes_df,
                  place_name, all_reviews, reviews_df, all_cafes_dfs,
                  all_reviews_dfs, final_cafes, final_reviews, exc,
                  pages_fetched, last_request, appeared, last_detail, printed,
                  transport_failed >>

\* except Exception as e: print(f"... {place_name}: {e}"); continue.
\* Reading place_name before any response bound it raises out of the
\* handler.
ExceptHandler ==
  /\ UNCHANGED procVars
  /\ pc = "except"
  /\ IF place_name = Unbound
       THEN /\ pc' = "aborted"
            /\ exc' = "UnboundLocalError"
            /\ UNCHANGED << idx, printed >>
       ELSE /\ printed' = [name |-> place_name,
                           place_id |-> cafes_df[idx].place_id]
            /\ idx' = idx + 1
            /\ pc' = "reviews"
            /\ UNCHANGED exc
  /\ UNCHANGED << provider_place, nb, response, all_cafes, cafes_df,
                  place_name, all_reviews, reviews_df, all_cafes_dfs,
                  all_reviews_dfs, final_cafes, final_reviews, pages_fetched,
                  last_request, slept, appeared, last_detail, transport_failed >>

\* return pd.DataFrame(all_reviews), received by collect_all_data.
ReturnReviews ==
  /\ UNCHANGED procVars
  /\ pc = "reviews"
  /\ idx > Len(cafes_df)
  /\ reviews_df' = all_reviews
  /\ pc' = "merge"
  /\ UNCHANGED << provider_place, nb, response, all_cafes, cafes_df, idx,
                  place_name, all_reviews, all_cafes_dfs, all_reviews_dfs,
                  final_cafes, final_reviews, exc, pages_fetched, last_request,
                  slept, appeared, last_detail, printed, transport_failed >>

(***************************************************************************)
(* The rest of collect_all_data.                                           *)
(***************************************************************************)
\* The rows a left merge on place_id gives for one review row.
MergedRows(r, cafes) ==
  LET matches == SelectSeq(cafes, LAMBDA c : c.place_id = r.place_id)
  IN  IF matches = <<>>
        THEN << [place_id |-> r.place_id, place_name |-> r.place_name,
                 text |-> r.text, review_date |-> r.review_date,
                 neighborhood |-> 0, region |-> <<>>] >>
        ELSE [k \in 1..Len(matches) |->
                [place_id |-> r.place_id, place_name |-> r.place_name,
                 text |-> r.text, review_date |-> r.review_date,
                 neighborhood |-> matches[k].neighborhood,
                 region |-> matches[k].region]]

\* reviews_df.merge(cafes_df[['place_id','neighborhood','region']],
\*                  on='place_id', how='left')
RECURSIVE MergeLeft(_, _)
MergeLeft(reviews, cafes) ==
  IF reviews = <<>> THEN <<>>
  ELSE MergedRows(Head(reviews), cafes) \o MergeLeft(Tail(reviews), cafes)

\* The merge and the two appends.  A frame built from an empty list has no
\* place_id column, so merging it on place_id raises KeyError.
Merge ==
  /\ UNCHANGED procVars
  /\ pc = "merge"
  /\ IF reviews_df = <<>>
       THEN /\ pc' = "aborted"
            /\ exc' = "KeyError"
            /\ UNCHANGED << reviews_df, all_cafes_dfs, all_reviews_dfs >>
       ELSE /\ reviews_df' = MergeLeft(reviews_df, cafes_df)
            /\ all_cafes_dfs' = Append(all_cafes_dfs, cafes_df)
            /\ all_reviews_dfs' = Append(all_reviews_dfs, reviews_df')
            /\ pc' = "pause"
            /\ UNCHANGED exc
  /\ UNCHANGED << provider_place, nb, response, all_cafes, cafes_df, idx,
                  place_name, all_reviews, final_cafes, final_reviews,
                  pages_fetched, last_request, slept, appeared, last_detail,
                  printed, transport_failed >>

\* time.sleep(1) and the next iteration of the loop over neighborhoods.
AreaPause ==
  /\ UNCHANGED procVars
  /\ pc = "pause"
  /\ slept' = TRUE
  /\ nb' = nb + 1
  /\ pc' = "loop"
  /\ UNCHANGED << provider_place, response, all_cafes, cafes_df, idx,
                  place_name, all_reviews, reviews_df, all_cafes_dfs,
                  all_reviews_dfs, final_cafes, final_reviews, exc,
                  pages_fetched, last_request, appeared, last_detail, printed,
                  transport_failed >>

\* pd.concat(dfs, ignore_index=True)
RECURSIVE Concat(_)
Concat(dfs) == IF dfs = <<>> THEN <<>> ELSE Head(dfs) \o Concat(Tail(dfs))

\* As DropDuplicates, with keep='last'.
RECURSIVE DropDuplicatesKeepLast(_)
DropDuplicatesKeepLast(rows) ==
  IF rows = <<>> THEN <<>>
  ELSE LET rest == DropDuplicatesKeepLast(Tail(rows))
       IN  IF \E k \in 2..Len(rows) : rows[k].place_id = Head(rows).place_id
             THEN rest
             ELSE << Head(rows) >> \o rest

\* df.drop_duplicates(subset=['place_id']): keep='first' is the default.
RECURSIVE DropDuplicates(_)
DropDuplicates(rows) ==
  IF rows = <<>> THEN <<>>
  ELSE LET n == Len(rows)
           kept == DropDuplicates(SubSeq(rows, 1, n - 1))
       IN  IF \E k \in 1..(n - 1) : rows[k].place_id = rows[n].place_id
             THEN kept
             ELSE Append(kept, rows[n])

\* After the loop: the two concats, drop_duplicates and the two writes.
\* pd.concat of an empty list raises ValueError.
Combine ==
  /\ UNCHANGED procVars
  /\ pc = "loop"
  /\ nb > NAreas
  /\ IF all_cafes_dfs = <<>>
       THEN /\ pc' = "aborted"
            /\ exc' = "ValueError"
            /\ UNCHANGED << final_cafes, final_reviews >>
       ELSE /\ final_cafes' = DropDuplicates(Concat(all_cafes_dfs))
            /\ final_reviews' = Concat(all_reviews_dfs)
            /\ pc' = "saved"
            /\ UNCHANGED exc
  /\ UNCHANGED << provider_place, nb, response, all_cafes, cafes_df, idx,
                  place_name, all_reviews, reviews_df, all_cafes_dfs,
                  all_reviews_dfs, pages_fetched, last_request, slept,
                  appeared, last_detail, printed, transport_failed >>

Next ==
  \/ FirstRequest
  \/ PageDelay
  \/ NextRequest
  \/ Convert
  \/ DetailRequest
  \/ ReviewSleep
  \/ ExceptHandler
  \/ ReturnReviews
  \/ Merge
  \/ AreaPause
  \/ Combine

Spec == Init /\ [][Next]_vars

\* The program is one sequential thread: while a step is possible it is
\* taken (every provider call returns or raises).
LiveSpec == Spec /\ WF_vars(Next)

\* The place table, the requests of collect_cafes and the fate of a failed
\* run do not depend on what the reviews hold.  The runs of PlacesSpec are
\* the runs of Spec in which every detail request raises or returns one
\* review with a valid time.
BasicOutcomes ==
  { [raises |-> TRUE, reviews |-> <<>>],
    [raises |-> FALSE, reviews |-> << [time |-> "epoch", text |-> 1] >>] }

InitPlaces == Init /\ provider_place \in [Places -> BasicOutcomes]

PlacesSpec == InitPlaces /\ [][Next]_vars

(***************************************************************************)
(* Properties.                                                             *)
(***************************************************************************)
RowsOf(rows, p) == SelectSeq(rows, LAMBDA r : r.place_id = p)
PlaceIds(rows) == { rows[k].place_id : k \in 1..Len(rows) }

\* The reviews the provider holds for place p, as flat rows.
ProvidedRows(p) ==
  [k \in 1..Len(provider_place[p].reviews) |->
     ReviewRow(p, PlaceName(p), provider_place[p].reviews[k])]

\* Collecting the reviews of p raises: in the request or in the flattening.
CollectionRaises(p) ==
  \/ provider_place[p].raises
  \/ \E k \in 1..Len(provider_place[p].reviews) :
       provider_place[p].reviews[k].time = "overflow"

\* C1: for any sequence of provider responses, collect_cafes issues at most
\* 3 places_nearby requests for one area (the first plus two follow-ups).
C1_PageBound == pages_fetched <= 3

\* C2: no exception escapes collect_reviews, whichever detail requests
\* raise, and what it returns holds, for every place whose request did not
\* raise, exactly the reviews the provider returned for it.
C2_ReviewsTolerateFailure ==
  /\ exc # "UnboundLocalError"
  /\ pc = "merge" =>
       \A p \in PlaceIds(cafes_df) :
         ~provider_place[p].raises => RowsOf(reviews_df, p) = ProvidedRows(p)

\* The area that first returned place p, in collection order.
FirstArea(p) ==
  appeared[CHOOSE k \in 1..Len(appeared) :
             /\ appeared[k][1] = p
             /\ \A j \in 1..(k - 1) : appeared[j][1] # p][2]

AppearedIn(a) == { appeared[k][1] : k \in { j \in 1..Len(appeared) : appeared[j][2] = a } }

\* C3: the deduplicated place table has exactly one row per place id that
\* any area returned, tagged with the first area that returned it.
C3_DedupFirstArea ==
  pc = "saved" =>
    /\ PlaceIds(final_cafes) = { appeared[k][1] : k \in 1..Len(appeared) }
    /\ \A j, k \in 1..Len(final_cafes) :
         j # k => final_cafes[j].place_id # final_cafes[k].place_id
    /\ \A k \in 1..Len(final_cafes) :
         /\ final_cafes[k].neighborhood = FirstArea(final_cafes[k].place_id)
         /\ final_cafes[k].region = RegionOf(FirstArea(final_cafes[k].place_id))

\* Two areas share one place: |A| + |B| - 1 rows, the shared one tagged A.
C3_Witness ==
  /\ pc = "saved"
  /\ Cardinality(AppearedIn(1) \cap AppearedIn(2)) = 1
  /\ Len(final_cafes) = Cardinality(AppearedIn(1)) + Cardinality(AppearedIn(2)) - 1
  /\ \E k \in 1..Len(final_cafes) :
       /\ final_cafes[k].place_id \in AppearedIn(1) \cap AppearedIn(2)
       /\ final_cafes[k].neighborhood = 1

\* C4: the pagination of one area terminates: once collect_cafes waits to
\* fetch a further page it eventually leaves the loop (or a request raised).
C4_PaginationTerminates ==
  (pc = "delay") ~> (pc = "convert" \/ transport_failed)

\* C5: a follow-up request carries only the page token of the response just
\* before it and is issued after a sleep; only the first request of an area
\* carries location, radius, type and language.
C5_TokenOnlyAfterDelay ==
  /\ [](pages_fetched = 1 =>
          last_request.params = {"location", "radius", "type", "language"})
  /\ [](pages_fetched > 1 => last_request.params = {"page_token"})
  /\ [][(pc = "next" /\ pc' # "next") =>
          /\ response.has_token
          /\ last_request'.params = {"page_token"}
          /\ last_request'.page_token = response.next_page_token
          /\ last_request'.delayed]_vars

\* The third request of an area used the token of the second response.
C5_Witness ==
  /\ pages_fetched = 3
  /\ last_request.params = {"page_token"}
  /\ last_request.page_token = 2
  /\ last_request.delayed
  /\ ~transport_failed

\* C6: in collect_reviews every detail request but the first is preceded by
\* a sleep since the request before it, whether that one succeeded or not.
C6_DelayBetweenDetails == last_detail.first \/ last_detail.delayed

\* C7: a place whose review collection raised, in the request or while
\* flattening, has no row in what collect_reviews returns.
C7_FailedPlaceSkipped ==
  pc = "merge" =>
    \A p \in PlaceIds(cafes_df) :
      CollectionRaises(p) => RowsOf(reviews_df, p) = <<>>

\* C8: an area with zero places gives an empty frame and contributes
\* nothing, and the run does not raise for it, also when every area is empty.
C8_EmptyAreasTolerated ==
  /\ (pc = "pause" /\ all_cafes = <<>>) => cafes_df = <<>>
  /\ exc # "ValueError"

\* C9: a places_nearby failure ends the run: the exception propagates, no
\* step follows it and no output table is produced.
C9_TransportFailureFatal ==
  /\ [](transport_failed =>
          /\ pc = "aborted"
          /\ exc = "TransportError"
          /\ final_cafes = <<>>
          /\ final_reviews = <<>>)
  /\ [][transport_failed => UNCHANGED vars]_vars

\* A follow-up page request of the second area failed.
C9_Witness ==
  /\ transport_failed
  /\ nb = 2
  /\ last_request.params = {"page_token"}
  /\ pc = "aborted"

\* C10: the line printed for a skipped place names the place that failed.
C10_SkipLogNamesPlace ==
  printed.place_id # 0 => printed.name = PlaceName(printed.place_id)

(***************************************************************************)
(* CafeProcessor.clean_review_text and the text columns of clean_review_df.*)
(* A text is a sequence of characters.                                     *)
(***************************************************************************)
allVars == << vars, procVars >>

\* A provider that is never asked: the collection does not run here.
QuietProvider == [p \in Places |-> [raises |-> TRUE, reviews |-> <<>>]]

NaText == << "NaN" >>                 \* a missing 'text' cell (None / NaN)
Whitespace == {" ", "\t", "\n"}
Alphabet == {"A", "a", "!"} \cup Whitespace

\* "  Great Coffee!!  \n Nice "
ExampleText ==
  << " ", " ", "G", "r", "e", "a", "t", " ", "C", "o", "f", "f", "e", "e",
     "!", "!", " ", " ", "\n", " ", "N", "i", "c", "e", " " >>

\* "great coffee!! nice"
ExampleClean ==
  << "g", "r", "e", "a", "t", " ", "c", "o", "f", "f", "e", "e", "!", "!",
     " ", "n", "i", "c", "e" >>

Texts ==
  UNION { [1..n -> Alphabet] : n \in 0..MaxTextLen } \cup {NaText, ExampleText}

\* The upper-case letters of the texts above and their lower case.
LowerOf == ("A" :> "a") @@ ("G" :> "g") @@ ("C" :> "c") @@ ("N" :> "n")

\* As Lower, for str.swapcase in place of str.lower.
SwapCase(c) ==
  IF c \in DOMAIN LowerOf THEN LowerOf[c]
  ELSE IF \E u \in DOMAIN LowerOf : LowerOf[u] = c
         THEN CHOOSE u \in DOMAIN LowerOf : LowerOf[u] = c
         ELSE c

\* str.lower, one character.
Lower(c) == IF c \in DOMAIN LowerOf THEN LowerOf[c] ELSE c

LowerText(t) == [k \in 1..Len(t) |-> Lower(t[k])]

\* str.split() without arguments: the maximal runs of non-whitespace.
RECURSIVE SplitAcc(_, _, _)
SplitAcc(t, cur, acc) ==
  IF t = <<>>
    THEN IF cur = <<>> THEN acc ELSE Append(acc, cur)
    ELSE IF Head(t) \in Whitespace
           THEN SplitAcc(Tail(t), <<>>, IF cur = <<>> THEN acc ELSE Append(acc, cur))
           ELSE SplitAcc(Tail(t), Append(cur, Head(t)), acc)

Split(t) == SplitAcc(t, <<>>, <<>>)

\* As Join, for ''.join.
RECURSIVE JoinTight(_, _)
JoinTight(tokens, sep) ==
  IF tokens = <<>> THEN <<>> ELSE Head(tokens) \o JoinTight(Tail(tokens), sep)

\* sep.join(tokens)
RECURSIVE Join(_, _)
Join(tokens, sep) ==
  IF tokens = <<>> THEN <<>>
  ELSE IF Len(tokens) = 1 THEN Head(tokens)
  ELSE Head(tokens) \o sep \o Join(Tail(tokens), sep)

\* if pd.isna(text) or text == '': return ''
\* text = text.lower(); text = ' '.join(text.split())
clean_review_text(t) ==
  IF t = NaText \/ t = <<>> THEN <<>>
  ELSE Join(Split(LowerText(t)), << " " >>)

\* df['text_clean'].str.len() and df['text_clean'].str.split().str.len()
TextLength(t) == Len(t)
WordCount(t) == Len(Split(t))

\* A review text reaches the cleaner.
TakeText ==
  /\ step = "none"
  /\ called = "none"
  /\ text' \in Texts
  /\ step' = "input"
  /\ UNCHANGED << self_cafes_df, self_reviews_df, loaded_reviews, called,
                  raised, merged, stats, text_clean, text_length, word_count,
                  text_again >>
  /\ UNCHANGED vars

\* df['text_clean'] = df['text'].apply(self.clean_review_text), one cell.
ApplyClean ==
  /\ step = "input"
  /\ text_clean' = clean_review_text(text)
  /\ step' = "cleaned"
  /\ UNCHANGED << self_cafes_df, self_reviews_df, loaded_reviews, called,
                  raised, merged, stats, text, text_length, word_count,
                  text_again >>
  /\ UNCHANGED vars

\* The two text features of clean_review_df, one cell.
ApplyFeatures ==
  /\ step = "cleaned"
  /\ text_length' = TextLength(text_clean)
  /\ word_count' = WordCount(text_clean)
  /\ step' = "featured"
  /\ UNCHANGED << self_cafes_df, self_reviews_df, loaded_reviews, called,
                  raised, merged, stats, text, text_clean, text_again >>
  /\ UNCHANGED vars

\* clean_review_text applied to its own result.
ApplyCleanAgain ==
  /\ step = "featured"
  /\ text_again' = clean_review_text(text_clean)
  /\ step' = "again"
  /\ UNCHANGED << self_cafes_df, self_reviews_df, loaded_reviews, called,
                  raised, merged, stats, text, text_clean, text_length,
                  word_count >>
  /\ UNCHANGED vars

TextNext == TakeText \/ ApplyClean \/ ApplyFeatures \/ ApplyCleanAgain

InitQuiet == Init /\ provider_place = QuietProvider

TextSpec == InitQuiet /\ [][TextNext]_allVars

\* C11: cleaning a cleaned text changes nothing, and a missing or empty
\* text cleans to the empty string.
C11_CleanIdempotent ==
  /\ step = "again" => text_again = text_clean
  /\ (step \in {"cleaned", "featured", "again"} /\ text \in {NaText, <<>>})
       => text_clean = <<>>

\* A text with upper case and a newline was cleaned twice.
C11_Witness ==
  /\ step = "again"
  /\ text = << "A", "\n", "a" >>
  /\ text_clean = << "a", " ", "a" >>
  /\ text_again = text_clean

\* What cleaning is to give, position by position: every whitespace
\* character becomes a blank and every letter lower case; a blank stays
\* only where a word follows it and a word precedes it.
Blanked(t) ==
  [k \in 1..Len(t) |-> IF t[k] \in Whitespace THEN " " ELSE Lower(t[k])]

KeptPositions(b) ==
  { k \in 1..Len(b) :
      \/ b[k] # " "
      \/ /\ k < Len(b)
         /\ b[k + 1] # " "
         /\ \E j \in 1..(k - 1) : b[j] # " " }

Normalized(t) ==
  LET b == Blanked(t)
      kept == KeptPositions(b)
  IN  [n \in 1..Cardinality(kept) |->
         b[CHOOSE k \in kept : Cardinality({ j \in kept : j <= k }) = n]]

\* The words of a text: the places where a non-whitespace run starts.
WordStarts(t) ==
  { k \in 1..Len(t) :
      /\ t[k] \notin Whitespace
      /\ (k = 1 \/ t[k - 1] \in Whitespace) }

\* C12: text_clean is the text in lower case with every run of whitespace
\* collapsed to one blank and none at the ends, text_length is its number of
\* characters and word_count its number of words (0 for the empty string);
\* "  Great Coffee!!  \n Nice " gives "great coffee!! nice", 19 and 3.
C12_CleanedTextAndFeatures ==
  /\ (step \in {"cleaned", "featured", "again"} /\ text # NaText)
       => text_clean = Normalized(text)
  /\ (step \in {"featured", "again"})
       => /\ text_length = Len(text_clean)
          /\ word_count = Cardinality(WordStarts(text_clean))
          /\ text_clean = <<>> => word_count = 0
  /\ (step \in {"featured", "again"} /\ text = ExampleText)
       => /\ text_clean = ExampleClean
          /\ text_length = 19
          /\ word_count = 3

\* The example of the specification went through the cleaner.
C12_Witness ==
  /\ step = "featured"
  /\ text = ExampleText
  /\ text_clean = ExampleClean
  /\ word_count = 3

(***************************************************************************)
(* CafeProcessor: load_data, clean_cafe_df, clean_review_df,               *)
(* cafe_reviews_df and generate_summary_stats, called in any order on the  *)
(* loaded frames.  A numeric cell is <<>> when missing, <<n>> otherwise.   *)
(* The frames carry the columns the methods read.                          *)
(***************************************************************************)
TotalRatings == { <<>>, << 10 >> }
ReviewRatings == {1, 5}
ReviewTexts == { NaText, << "A", " ", " ", "a" >> }

PlaceRows ==
  { [place_id |-> p, neighborhood |-> a, region |-> RegionOf(a),
     total_ratings |-> t] : p \in Places, a \in Areas, t \in TotalRatings }

LoadedReviewRows ==
  { [place_id |-> p, rating |-> r, text |-> t, time |-> "epoch"] :
      p \in Places, r \in ReviewRatings, t \in ReviewTexts }

Tables(rows) == UNION { [1..n -> rows] : n \in 0..MaxRows }

\* self.cafes_df = pd.read_pickle(cafe_path); self.reviews_df = ...
LoadData ==
  /\ called = "none"
  /\ step = "none"
  /\ self_cafes_df' \in Tables(PlaceRows)
  /\ self_reviews_df' \in Tables(LoadedReviewRows)
  /\ loaded_reviews' = self_reviews_df'
  /\ called' = "load_data"
  /\ UNCHANGED << raised, merged, stats, text, text_clean, text_length,
                  word_count, text_again, step >>
  /\ UNCHANGED vars

\* df[...].fillna(-1), one cell.
FillNa(cell) == IF cell = <<>> THEN << -1 >> ELSE cell

\* q = [0, 0,25, 5, 0,75, 1]: seven numbers, the commas being separators.
QuantileList == << 0, 0, 25, 5, 0, 75, 1 >>

\* Series.quantile validates q first: every entry must lie in [0, 1].
QcutRaises(q) == \E k \in 1..Len(q) : q[k] < 0 \/ q[k] > 1

\* The frame pd.qcut is given: duplicates dropped, missing cells filled.
FilledCafes(rows) ==
  LET df == DropDuplicates(rows)
  IN  [k \in 1..Len(df) |-> [df[k] EXCEPT !.total_ratings = FillNa(@)]]

\* clean_cafe_df: copy, drop_duplicates, fillna, then pd.qcut, which raises
\* for this q whatever the frame holds; self.cafes_df is not assigned.
CleanCafeDf ==
  /\ called # "none"
  /\ QcutRaises(QuantileList)
  /\ raised' = "ValueError"
  /\ called' = "clean_cafe_df"
  /\ UNCHANGED << self_cafes_df, self_reviews_df, loaded_reviews, merged,
                  stats, text, text_clean, text_length, word_count,
                  text_again, step >>
  /\ UNCHANGED vars

\* The columns clean_review_df adds to one row.
Enriched(r) ==
  [place_id |-> r.place_id, rating |-> r.rating, text |-> r.text,
   time |-> r.time,
   text_clean |-> clean_review_text(r.text),
   text_length |-> TextLength(clean_review_text(r.text)),
   word_count |-> WordCount(clean_review_text(r.text)),
   review_date |-> << "datetime", r.time >>,
   year |-> << "year", r.time >>,
   month |-> << "month", r.time >>,
   day_of_week |-> << "dayofweek", r.time >>]

\* clean_review_df: copy, drop_duplicates(subset=['place_id']), the text
\* columns, the date columns, self.reviews_df = df.
CleanReviewDf ==
  /\ called # "none"
  /\ LET df == DropDuplicates(self_reviews_df)
     IN  self_reviews_df' = [k \in 1..Len(df) |-> Enriched(df[k])]
  /\ raised' = NoException
  /\ called' = "clean_review_df"
  /\ UNCHANGED << self_cafes_df, loaded_reviews, merged, stats, text,
                  text_clean, text_length, word_count, text_again, step >>
  /\ UNCHANGED vars

\* The frame has the columns the aggregation names.
HasTextFeatures(rows) ==
  \A k \in 1..Len(rows) : "text_length" \in DOMAIN rows[k]

\* .count(2): DataFrame.count takes the axis first; a frame has axes 0, 1.
CountAxis == 2
CountRaises(axis) == axis \notin {0, 1}

\* cafe_reviews_df: groupby('place_id').agg({...}) raises KeyError when the
\* text columns are missing, and .count(2) raises ValueError otherwise; the
\* merge is not reached.
CafeReviewsDf ==
  /\ called # "none"
  /\ ~HasTextFeatures(self_reviews_df) \/ CountRaises(CountAxis)
  /\ raised' = IF HasTextFeatures(self_reviews_df) THEN "ValueError"
               ELSE "KeyError"
  /\ called' = "cafe_reviews_df"
  /\ UNCHANGED << self_cafes_df, self_reviews_df, loaded_reviews, merged,
                  stats, text, text_clean, text_length, word_count,
                  text_again, step >>
  /\ UNCHANGED vars

\* Series.value_counts().to_dict()
ValueCounts(column) ==
  [v \in Range(column) |->
     Cardinality({ k \in 1..Len(column) : column[k] = v })]

RegionColumn(rows) == [k \in 1..Len(rows) |-> rows[k].region]
NeighborhoodColumn(rows) == [k \in 1..Len(rows) |-> rows[k].neighborhood]

\* self.cafes_df[~self.cafes_df['place_id'].isin(...)].shape[0]
MissingReviews(cafes, reviews) ==
  Cardinality({ k \in 1..Len(cafes) : cafes[k].place_id \notin PlaceIds(reviews) })

\* generate_summary_stats: the dict is built entry by entry; the division
\* len(reviews_df) / len(cafes_df) raises when the place table is empty.
GenerateSummaryStats ==
  /\ called # "none"
  /\ called' = "generate_summary_stats"
  /\ IF Len(self_cafes_df) = 0
       THEN /\ raised' = "ZeroDivisionError"
            /\ UNCHANGED stats
       ELSE /\ raised' = NoException
            /\ stats' =
                 [total_cafes |-> Len(self_cafes_df),
                  total_reviews |-> Len(self_reviews_df),
                  cafes_by_region |-> ValueCounts(RegionColumn(self_cafes_df)),
                  cafes_by_neighborhood |->
                    ValueCounts(NeighborhoodColumn(self_cafes_df)),
                  avg_reviews_per_cafe |->
                    << Len(self_reviews_df), Len(self_cafes_df) >>,
                  missing_reviews |->
                    MissingReviews(self_cafes_df, self_reviews_df)]
  /\ UNCHANGED << self_cafes_df, self_reviews_df, loaded_reviews, merged,
                  text, text_clean, text_length, word_count, text_again,
                  step >>
  /\ UNCHANGED vars

ProcNext ==
  \/ LoadData
  \/ CleanCafeDf
  \/ CleanReviewDf
  \/ CafeReviewsDf
  \/ GenerateSummaryStats

ProcSpec == InitQuiet /\ [][ProcNext]_allVars

RECURSIVE SumRatings(_)
SumRatings(rows) ==
  IF rows = <<>> THEN 0 ELSE Head(rows).rating + SumRatings(Tail(rows))

\* C13: cafe_reviews_df returns one row for every place of the place
\* table, in every case: no place is dropped or duplicated by the join.
C13_OneRowPerPlace ==
  called = "cafe_reviews_df" =>
    /\ raised = NoException
    /\ Len(merged) = Len(self_cafes_df)
    /\ \A k \in 1..Len(merged) : merged[k].place_id = self_cafes_df[k].place_id

\* C14: clean_cafe_df gives every place one tier in 1..4 from its
\* total_ratings, and a place with more ratings never gets a lower tier.
C14_QuartileTiers ==
  called = "clean_cafe_df" =>
    /\ raised = NoException
    /\ \A k \in 1..Len(self_cafes_df) : self_cafes_df[k].ratings_pct \in 1..4
    /\ \A j, k \in 1..Len(self_cafes_df) :
         self_cafes_df[j].total_ratings[1] < self_cafes_df[k].total_ratings[1]
           => self_cafes_df[j].ratings_pct <= self_cafes_df[k].ratings_pct

\* C15: after review cleaning followed by aggregation, the row of a place
\* with reviews has review_count = the number of its loaded reviews and
\* rating_mean = the sum of their ratings divided by that number.
C15_CountAndMean ==
  (called = "cafe_reviews_df" /\ self_reviews_df # <<>>
     /\ HasTextFeatures(self_reviews_df)) =>
    /\ raised = NoException
    /\ \A k \in 1..Len(merged) :
         LET own == RowsOf(loaded_reviews, merged[k].place_id)
         IN  own # <<>> =>
               /\ merged[k].review_count = Len(own)
               /\ merged[k].rating_mean * Len(own) = SumRatings(own)

\* C16: generate_summary_stats returns total_cafes, total_reviews and
\* missing_reviews (places whose id is in no review) for every pair of
\* tables, a place table with no rows included.
C16_SummaryCounts ==
  called = "generate_summary_stats" =>
    /\ raised = NoException
    /\ stats.total_cafes = Len(self_cafes_df)
    /\ stats.total_reviews = Len(self_reviews_df)
    /\ stats.missing_reviews =
         Cardinality({ k \in 1..Len(self_cafes_df) :
           \A j \in 1..Len(self_reviews_df) :
             self_reviews_df[j].place_id # self_cafes_df[k].place_id })

\* C17: clean_review_df keeps every review: its result has one enriched
\* row for each loaded review, in the same order.
C17_CleaningKeepsReviews ==
  called = "clean_review_df" =>
    /\ Len(self_reviews_df) = Len(loaded_reviews)
    /\ \A k \in 1..Len(self_reviews_df) :
         /\ self_reviews_df[k].place_id = loaded_reviews[k].place_id
         /\ self_reviews_df[k].rating = loaded_reviews[k].rating
         /\ self_reviews_df[k].text = loaded_reviews[k].text

\* C18: review collection works on the deduplicated place set: a detail
\* request is issued only after the deduplication, and never for a place
\* whose reviews an earlier area of the run already collected.
C18_ReviewsAfterDedup ==
  pc \in {"rsleep", "except"} =>
    /\ final_cafes # <<>>
    /\ last_detail.place_id \notin PlaceIds(Concat(all_cafes_dfs))

\* C19: in the saved output every review row belongs to exactly one row of
\* the place table and carries that row's neighborhood and region.
C19_ReviewTagsMatchPlace ==
  pc = "saved" =>
    \A k \in 1..Len(final_reviews) :
      LET own == RowsOf(final_cafes, final_reviews[k].place_id)
      IN  /\ Len(own) = 1
          /\ final_reviews[k].neighborhood = own[1].neighborhood
          /\ final_reviews[k].region = own[1].region

====
